---- MODULE Spec2Model ----
(***************************************************************************)
(* Model of the schema reconciliation of OrtecAPI (src/ortec.py):          *)
(* set_pk_and_fk, drop_pk_and_fk, export_team_lineups and the loaders,     *)
(* run against a model of the MS SQL Server database they talk to.         *)
(*                                                                         *)
(* The database is seen through two handles, as in src/database.py: the    *)
(* pyodbc connection/cursor (autocommit off: DDL is pending until          *)
(* conn.commit()) and the sqlalchemy engine (pandas to_sql and the         *)
(* inspector; every statement commits on its own).  `db` is the schema as  *)
(* the pyodbc connection sees it, `committed` the durable schema.          *)
(***************************************************************************)
EXTENDS Integers, Sequences, FiniteSets, TLC

VARIABLES
    api,        \* whether OrtecAPI.__init__ reached the API
    dbc,        \* what DatabaseConnection.__init__ managed to set
    files,      \* the CSV files written
    db,         \* schema as seen by the pyodbc connection (pending DDL included)
    committed,  \* durable schema
    op,         \* the public method being executed, or "idle"
    phase,      \* position inside the method
    i,          \* index of the table of the current loop iteration
    j,          \* index of the foreign key of the current inner iteration
    result,     \* rows fetched by query_fk for the current table
    run,        \* what the current call has done so far (observation only)
    prev,       \* summary of the previous completed call (observation only)
    nops,       \* number of calls made so far
    nfail,      \* number of database failures injected so far
    invoked     \* the calls the main program has made, in order

vars == <<api, dbc, files, db, committed, op, phase, i, j, result, run, prev, nops, nfail,
          invoked>>

-----------------------------------------------------------------------------
(* Bounds of the model *)

MaxOps == 3

MaxFail == 1

-----------------------------------------------------------------------------
(* Static configuration *)

None == "None"

\* OrtecAPI.__tables
tables ==
    [table_teams |-> "Teams",
     table_persons |-> "Persons",
     table_playerstats |-> "PlayersStats",
     table_playerstatsmeta |-> "PlayerStatsMeta",
     table_teamstats |-> "TeamsStats",
     table_teamstatsmeta |-> "TeamStatsMeta",
     table_positionsmeta |-> "PositionsMeta",
     table_venuesmeta |-> "VenuesMeta",
     table_matches |-> "Matches",
     table_teamslineup |-> "TeamsLineUp"]

TableNames == {tables[k] : k \in DOMAIN tables}

\* CoostoAPI.__tables
coosto_tables ==
    [table_projects |-> "projects",
     table_topics |-> "trending_topics",
     table_sources |-> "sources",
     table_sentiment |-> "sentiment",
     table_authors |-> "authors"]

CoostoTableNames == {coosto_tables[k] : k \in DOMAIN coosto_tables}

\* Every table the two APIs name in the one database they share.
AllTables == TableNames \cup CoostoTableNames

\* A relation list with an entry for TeamsLineUp.
tables_pk_fk_lineup ==
    << <<tables.table_teamslineup, None,
            << <<"TeamID", tables.table_teams, "Id">>,
               <<"PersonID", tables.table_persons, "PersonID">> >> >>,
       <<tables.table_teams, "Id">>,
       <<tables.table_matches, "MatchID",
            << <<"HomeTeamId", tables.table_teams, "Id">>,
               <<"AwayTeamId", tables.table_teams, "Id">>,
               <<"VenueId", tables.table_venuesmeta, "Id">> >> >>,
       <<tables.table_persons, "PersonId",
            << <<"DefaultPosition", tables.table_positionsmeta, "Id">> >> >>,
       <<tables.table_venuesmeta, "Id">>,
       <<tables.table_playerstatsmeta, "Id">>,
       <<tables.table_teamstatsmeta, "Id">>,
       <<tables.table_positionsmeta, "Id">>,
       <<tables.table_playerstats, None,
            << <<"MatchID", tables.table_matches, "MatchID">>,
               <<"PersonID", tables.table_persons, "PersonID">>,
               <<"StatisticID", tables.table_playerstatsmeta, "Id">> >> >>,
       <<tables.table_teamstats, None,
            << <<"MatchID", tables.table_matches, "MatchID">>,
               <<"TeamID", tables.table_teams, "Id">>,
               <<"StatisticID", tables.table_teamstatsmeta, "Id">> >> >> >>

\* The relation list of set_pk_and_fk.  A 2-tuple has no foreign keys.
tables_pk_fk ==
    << <<tables.table_teams, "Id">>,
       <<tables.table_matches, "MatchID",
            << <<"HomeTeamId", tables.table_teams, "Id">>,
               <<"AwayTeamId", tables.table_teams, "Id">>,
               <<"VenueId", tables.table_venuesmeta, "Id">> >> >>,
       <<tables.table_persons, "PersonId",
            << <<"DefaultPosition", tables.table_positionsmeta, "Id">> >> >>,
       <<tables.table_venuesmeta, "Id">>,
       <<tables.table_playerstatsmeta, "Id">>,
       <<tables.table_teamstatsmeta, "Id">>,
       <<tables.table_positionsmeta, "Id">>,
       <<tables.table_playerstats, None,
            << <<"MatchID", tables.table_matches, "MatchID">>,
               <<"PersonID", tables.table_persons, "PersonID">>,
               <<"StatisticID", tables.table_playerstatsmeta, "Id">> >> >>,
       <<tables.table_teamstats, None,
            << <<"MatchID", tables.table_matches, "MatchID">>,
               <<"TeamID", tables.table_teams, "Id">>,
               <<"StatisticID", tables.table_teamstatsmeta, "Id">> >> >> >>

NTables == Len(tables_pk_fk)

\* The tables the drop queries of drop_pk_and_fk name.
DropFkTables ==
    {tables.table_teams, tables.table_persons, tables.table_playerstats,
     tables.table_playerstatsmeta, tables.table_teamstats,
     tables.table_teamstatsmeta, tables.table_positionsmeta,
     tables.table_venuesmeta, tables.table_matches, tables.table_teamslineup}

DropPkTables ==
    {tables.table_teams, tables.table_persons, tables.table_playerstats,
     tables.table_playerstatsmeta, tables.table_teamstats,
     tables.table_teamstatsmeta, tables.table_positionsmeta,
     tables.table_venuesmeta, tables.table_matches}

\* Key columns of each table exactly as the loader (or CREATE TABLE) writes them.
Columns(t) ==
    CASE t = "Matches" -> {"MatchID", "HomeTeamID", "AwayTeamID", "VenueId"}
      [] t = "Persons" -> {"TeamID", "PersonID", "DefaultPosition"}
      [] t = "PlayersStats" -> {"MatchID", "PersonID", "StatisticID"}
      [] t = "TeamsStats" -> {"MatchID", "TeamID", "StatisticID"}
      [] t = "TeamsLineUp" -> {"TeamID", "PersonID"}
      [] OTHER -> {"Id"}

\* SQL Server resolves identifiers without regard to case (default collation);
\* Python compares strings exactly.  Fold is the case folding of an identifier.
Fold(c) ==
    CASE c \in {"Id"} -> "id"
      [] c \in {"MatchID"} -> "matchid"
      [] c \in {"HomeTeamId", "HomeTeamID"} -> "hometeamid"
      [] c \in {"AwayTeamId", "AwayTeamID"} -> "awayteamid"
      [] c \in {"VenueId"} -> "venueid"
      [] c \in {"PersonId", "PersonID"} -> "personid"
      [] c \in {"TeamID"} -> "teamid"
      [] c \in {"StatisticID"} -> "statisticid"
      [] c \in {"DefaultPosition"} -> "defaultposition"
      [] OTHER -> c

\* The stored columns of table t an identifier c resolves to (none or one).
ResolveCol(t, c) == {s \in Columns(t) : Fold(s) = Fold(c)}

-----------------------------------------------------------------------------
(* The database: catalog queries and DDL statements *)

\* A schema: the existing tables, the primary-key column of each table (None
\* when it has none), the foreign-key constraints (n tells apart constraints
\* that agree on everything but their generated name), and the columns that
\* an ALTER COLUMN has retyped; the rows of each table, as the sequence of the
\* batches inserted ("frame": the rows of the data frame its export builds,
\* "old": rows that differ from them), and the columns that hold values with
\* no matching row in the table their declared relation references.
EmptyDb ==
    [tables |-> {}, pk |-> [t \in AllTables |-> None], fk |-> {}, alt |-> {},
     rows |-> [t \in AllTables |-> <<>>], orph |-> {}]

\* Rows of query_pk: the stored names of the PRIMARY KEY columns of table t.
QueryPk(d, t) == IF d.pk[t] = None THEN {} ELSE {d.pk[t]}

\* Rows of query_fk: the stored names of the FOREIGN KEY columns of table t.
QueryFk(d, t) == {c.col : c \in {x \in d.fk : x.tab = t}}

\* The column takes part in a key constraint (its own or a referencing one).
ColumnIsKey(d, t, c) ==
    \E s \in ResolveCol(t, c) :
        \/ d.pk[t] = s
        \/ \E x \in d.fk : \/ x.tab = t /\ x.col = s
                           \/ x.ref = t /\ x.refcol = s

\* ALTER TABLE t ALTER COLUMN c INT [NOT NULL]
AlterColumnOk(d, t, c) == t \in d.tables /\ ResolveCol(t, c) # {}

AlterColumn(d, t, c) ==
    [d EXCEPT !.alt = @ \cup {<<t, s>> : s \in ResolveCol(t, c)}]

\* ALTER TABLE t ADD PRIMARY KEY (c)
AddPrimaryKeyOk(d, t, c) ==
    t \in d.tables /\ ResolveCol(t, c) # {} /\ d.pk[t] = None

AddPrimaryKey(d, t, c) ==
    [d EXCEPT !.pk[t] = CHOOSE s \in ResolveCol(t, c) : TRUE]

\* ALTER TABLE t [WITH NOCHECK] ADD FOREIGN KEY (c) REFERENCES rt (rc):
\* the referenced column must be the primary key of the referenced table;
\* WITH NOCHECK the rows already in t are not validated, without it the
\* statement is refused when a row of t has no matching row in rt.
AddForeignKeyOk(d, t, c, rt, rc, nocheck) ==
    /\ t \in d.tables /\ ResolveCol(t, c) # {}
    /\ rt \in d.tables /\ d.pk[rt] # None /\ d.pk[rt] \in ResolveCol(rt, rc)
    /\ nocheck \/ ~ \E s \in ResolveCol(t, c) : <<t, s>> \in d.orph

AddForeignKey(d, t, c, rt, rc) ==
    LET s == CHOOSE x \in ResolveCol(t, c) : TRUE
        same == {x \in d.fk : x.tab = t /\ x.col = s /\ x.ref = rt
                              /\ x.refcol = d.pk[rt]}
        used == {x.n : x \in same}
        fresh == CHOOSE m \in 1..(Cardinality(same) + 1) :
                    m \notin used /\ \A l \in 1..(m - 1) : l \in used
    IN [d EXCEPT !.fk = @ \cup {[tab |-> t, col |-> s, ref |-> rt,
                                 refcol |-> d.pk[rt], n |-> fresh]}]

\* The key constraints of a schema.
Constraints(d) == [pk |-> d.pk, fk |-> d.fk]

-----------------------------------------------------------------------------
(* Observation of one call *)

NewRun(name) ==
    [op |-> name,
     before |-> Constraints(db),  \* constraints when the call started
     pkDone |-> <<>>,             \* tables attempted by the primary-key pass
     pkSeen |-> {},               \* tables whose query_pk returned a row
     pkFailed |-> {},             \* tables whose primary-key unit raised
     pkDdl |-> 0,                 \* DDL statements issued by the primary-key pass
     pkCommits |-> 0,             \* commits issued by the primary-key pass
     pkEnd |-> Constraints(db),   \* constraints when the primary-key pass ended
     fkQueried |-> <<>>,          \* tables whose query_fk was executed
     fkQueryFailed |-> {},        \* tables whose query_fk raised
     fkTried |-> <<>>,            \* relations attempted by the foreign-key pass
     fkFailed |-> {},             \* relations whose unit raised
     fkPresent |-> {},            \* relations whose column query_fk had returned
     fkSkipped |-> {},            \* relations for which no statement was issued
     fkDdl |-> 0,                 \* DDL statements issued by the foreign-key pass
     fkCommits |-> 0,             \* commits issued by the foreign-key pass
     pkLooked |-> FALSE,          \* drop: the key-constraint lookup was executed
     fkLeft |-> {},               \* drop: foreign keys left when it was executed
     pkDropped |-> 0,             \* drop: key constraints dropped
     args |-> <<>>,               \* export_all, clean_database: the arguments
     calls |-> <<>>,              \* export_all: the exports invoked, in order
     dropRan |-> FALSE,           \* clean_database: drop_pk_and_fk has run
     cleaned |-> <<>>,            \* clean_database: the tables attempted
     cleanFailed |-> {},          \* clean_database: the tables whose unit raised
     injected |-> 0,              \* database failures injected during the call
     rowsBefore |-> db.rows,      \* rows when the call started
     tablesBefore |-> db.tables,  \* tables when the call started
     altPending |-> db.alt \ committed.alt,  \* ALTER COLUMNs pending then
     excs |-> 0]                  \* exceptions caught

NoRun == [NewRun("none") EXCEPT !.before = Constraints(EmptyDb),
                                !.pkEnd = Constraints(EmptyDb),
                                !.rowsBefore = EmptyDb.rows,
                                !.tablesBefore = {},
                                !.altPending = {}]

\* Summary of a completed call.
NoCall ==
    [op |-> "none", clean |-> TRUE, before |-> Constraints(EmptyDb),
     pkClean |-> TRUE,        \* set_pk_and_fk: no primary-key unit raised
     table |-> "",            \* an export: the table exported
     output |-> "", mode |-> "",
     checked |-> FALSE,       \* an export: what the check of output and mode said
     exported |-> FALSE,      \* an export: the export helper returned normally
     existed |-> FALSE,       \* export_team_lineups: TeamsLineUp existed before
     refs |-> FALSE,          \* export_team_lineups: Persons and Teams existed
     keyed |-> FALSE,         \* export_team_lineups: the keys relied upon were set
     createIssued |-> FALSE,  \* export_team_lineups: the CREATE TABLE was issued
     created |-> FALSE]       \* the call created its table

-----------------------------------------------------------------------------
(* set_pk_and_fk *)

\* query_fk executed before the try block is entered.
SetInTryLate(site) == site \in {"pk_query", "pk_alter", "pk_add", "pk_commit",
                                "fk_alter", "fk_add", "fk_commit"}

\* Every database call of set_pk_and_fk sits inside a try ... except Exception.
SetInTry(site) == site \in {"pk_query", "pk_alter", "pk_add", "pk_commit",
                            "fk_query", "fk_alter", "fk_add", "fk_commit"}

\* The primary-key loop stops one table short of the list.
PkNextShort(k) == IF k < NTables - 1 THEN <<"pk", k + 1>> ELSE <<"fk", 1>>

\* for table in tables_pk_fk: the position after the iteration of table k of
\* the primary-key loop; the foreign-key loop starts when the list is exhausted.
PkNext(k) == IF k < NTables THEN <<"pk", k + 1>> ELSE <<"fk", 1>>

\* break instead of continue in the handler of the primary-key loop.
PkAfterExceptionBreak(k) == <<"fk", 1>>

\* except Exception ...: continue  (line 189)
PkAfterException(k) == PkNext(k)

\* The existence check of the primary key left out.
checker_pk_unchecked(rows) == TRUE

\* checker_pk of line 178: no PRIMARY KEY row was fetched.
checker_pk(rows) == Cardinality(rows) = 0

\* The test for a declared primary key left out.
HasDeclaredPkAlways(table) == TRUE

\* table[1] is not None  (line 181)
HasDeclaredPk(table) == table[2] # None

\* conn.commit() placed after the if block: issued for skipped units too.
CommitIssuedOutside(checker, stmtsOk) == ~checker \/ stmtsOk

\* conn.commit() of lines 184 and 225: inside the if block, after the two
\* statements of the unit.
CommitIssued(checker, stmtsOk) == checker /\ stmtsOk

\* One iteration of the primary-key loop for `table`, with a database failure
\* injected at statement f ("none": no failure).
PkUnit(table, f) ==
    LET t == table[1]
        pkc == table[2]
        qfail == dbc # "full" \/ f = "query"
        nopk == checker_pk(QueryPk(db, t))
        doDdl == ~qfail /\ nopk /\ HasDeclaredPk(table)
        a1 == doDdl /\ f # "alter" /\ AlterColumnOk(db, t, pkc)
        d1 == IF a1 THEN AlterColumn(db, t, pkc) ELSE db
        a2 == a1 /\ f # "add" /\ AddPrimaryKeyOk(d1, t, pkc)
        d2 == IF a2 THEN AddPrimaryKey(d1, t, pkc) ELSE d1
        ci == ~qfail /\ CommitIssued(doDdl, a2)
        cok == ci /\ f # "commit"
    IN [db |-> d2,
        committed |-> IF cok THEN d2 ELSE committed,
        ddl |-> IF ~doDdl THEN 0 ELSE IF a1 THEN 2 ELSE 1,
        commits |-> IF ci THEN 1 ELSE 0,
        seen |-> ~qfail /\ ~nopk,
        exc |-> qfail \/ (doDdl /\ ~a2) \/ (ci /\ ~cok),
        site |-> IF qfail THEN "pk_query"
                 ELSE IF ~a1 THEN "pk_alter"
                 ELSE IF ~a2 THEN "pk_add" ELSE "pk_commit",
        hit |-> \/ f = "none"
                \/ f = "query" /\ dbc = "full"
                \/ f = "alter" /\ doDdl /\ AlterColumnOk(db, t, pkc)
                \/ f = "add" /\ a1 /\ AddPrimaryKeyOk(d1, t, pkc)
                \/ f = "commit" /\ ci]

FailPoints == {"none", "query", "alter", "add", "commit"}

Injected(f) == IF f = "none" THEN 0 ELSE 1

SetStart ==
    /\ op = "idle" /\ nops < MaxOps
    /\ op' = "set" /\ phase' = "pk" /\ i' = 1 /\ j' = 0 /\ result' = {}
    /\ run' = NewRun("set")
    /\ nops' = nops + 1
    /\ UNCHANGED <<api, dbc, invoked, files, db, committed, prev, nfail>>

SetPkUnit ==
    /\ op = "set" /\ phase = "pk"
    /\ \E f \in FailPoints :
        LET table == tables_pk_fk[i]
            r == PkUnit(table, f)
            nxt == IF r.exc THEN PkAfterException(i) ELSE PkNext(i)
            escaped == r.exc /\ ~SetInTry(r.site)
        IN /\ r.hit
           /\ f # "none" => nfail < MaxFail
           /\ nfail' = nfail + Injected(f)
           /\ db' = r.db
           /\ committed' = r.committed
           /\ phase' = IF escaped THEN "raised" ELSE nxt[1]
           /\ i' = IF escaped THEN i ELSE nxt[2]
           /\ run' = [run EXCEPT
                        !.pkDone = Append(@, table[1]),
                        !.pkSeen = IF r.seen THEN @ \cup {table[1]} ELSE @,
                        !.pkFailed = IF r.exc THEN @ \cup {table[1]} ELSE @,
                        !.pkDdl = @ + r.ddl,
                        !.pkCommits = @ + r.commits,
                        !.pkEnd = Constraints(r.db),
                        !.excs = @ + (IF r.exc THEN 1 ELSE 0)]
    /\ UNCHANGED <<api, dbc, invoked, files, op, j, result, prev, nops>>


\* The position after the iteration of table k of the foreign-key loop.
FkTableNext(k) == IF k < NTables THEN <<"fk", k + 1, 0>> ELSE <<"done", k, 0>>

\* except Exception ...: continue  (line 212)
FkAfterQueryException(k) == FkTableNext(k)

\* The position after relation jj of table k.
FkNext(k, jj) ==
    IF jj < Len(tables_pk_fk[k][3]) THEN <<"fk", k, jj + 1>> ELSE FkTableNext(k)

\* break instead of continue in the handler of the inner foreign-key loop.
FkAfterExceptionBreak(k, jj) == FkTableNext(k)

\* except Exception ...: continue  (line 230)
FkAfterException(k, jj) == FkNext(k, jj)

\* REFERENCES built from the table's own entry instead of fk_reference.
FkStatementOwn(table, fk_reference) ==
    [tab |-> table[1], col |-> fk_reference[1],
     ref |-> table[1], refcol |-> table[2], nocheck |-> TRUE]

\* ADD FOREIGN KEY without WITH NOCHECK.
FkStatementWithCheck(table, fk_reference) ==
    [tab |-> table[1], col |-> fk_reference[1],
     ref |-> fk_reference[2], refcol |-> fk_reference[3], nocheck |-> FALSE]

\* The statement of lines 222-224 for relation fk_reference of `table`.
FkStatement(table, fk_reference) ==
    [tab |-> table[1], col |-> fk_reference[1],
     ref |-> fk_reference[2], refcol |-> fk_reference[3], nocheck |-> TRUE]

\* checker_fk of line 217: Python compares the declared name with the fetched
\* column names exactly.
checker_fk(fk_reference, rows) == fk_reference[1] \notin rows

\* One iteration of the inner foreign-key loop, with a failure at statement f.
FkUnit(table, fk_reference, rows, f) ==
    LET st == FkStatement(table, fk_reference)
        doDdl == checker_fk(fk_reference, rows)
        a1 == doDdl /\ f # "alter" /\ AlterColumnOk(db, st.tab, st.col)
        d1 == IF a1 THEN AlterColumn(db, st.tab, st.col) ELSE db
        a2 == a1 /\ f # "add"
                 /\ AddForeignKeyOk(d1, st.tab, st.col, st.ref, st.refcol, st.nocheck)
        d2 == IF a2 THEN AddForeignKey(d1, st.tab, st.col, st.ref, st.refcol)
              ELSE d1
        ci == CommitIssued(doDdl, a2)
        cok == ci /\ f # "commit"
    IN [db |-> d2,
        committed |-> IF cok THEN d2 ELSE committed,
        ddl |-> IF ~doDdl THEN 0 ELSE IF a1 THEN 2 ELSE 1,
        commits |-> IF ci THEN 1 ELSE 0,
        skipped |-> ~doDdl,
        present |-> \E s \in ResolveCol(st.tab, st.col) : s \in rows,
        exc |-> (doDdl /\ ~a2) \/ (ci /\ ~cok),
        site |-> IF ~a1 THEN "fk_alter"
                 ELSE IF ~a2 THEN "fk_add" ELSE "fk_commit",
        \* whether ALTER COLUMN is accepted for a column that already takes
        \* part in a key constraint depends on the server: both outcomes
        free |-> f = "alter" /\ doDdl /\ AlterColumnOk(db, st.tab, st.col)
                 /\ ColumnIsKey(db, st.tab, st.col),
        hit |-> \/ f = "none"
                \/ f = "alter" /\ doDdl /\ AlterColumnOk(db, st.tab, st.col)
                \/ f = "add" /\ a1
                     /\ AddForeignKeyOk(d1, st.tab, st.col, st.ref, st.refcol, st.nocheck)
                \/ f = "commit" /\ ci]

\* for table in tables_pk_fk: if len(table) == 3 is false, nothing is done.
SetFkSkip ==
    /\ op = "set" /\ phase = "fk" /\ j = 0
    /\ Len(tables_pk_fk[i]) # 3
    /\ phase' = FkTableNext(i)[1] /\ i' = FkTableNext(i)[2] /\ j' = FkTableNext(i)[3]
    /\ UNCHANGED <<api, dbc, invoked, files, db, committed, op, result, run, prev, nops, nfail>>

\* lines 206-212: the catalog query of one table.
SetFkQuery ==
    /\ op = "set" /\ phase = "fk" /\ j = 0
    /\ Len(tables_pk_fk[i]) = 3
    /\ \E f \in {"none", "query"} :
        LET table == tables_pk_fk[i]
            qfail == dbc # "full" \/ f = "query"
            nxt == IF qfail THEN FkAfterQueryException(i) ELSE <<"fk", i, 1>>
            escaped == qfail /\ ~SetInTry("fk_query")
        IN /\ f = "query" => dbc = "full" /\ nfail < MaxFail
           /\ nfail' = nfail + Injected(f)
           /\ result' = IF qfail THEN result ELSE QueryFk(db, table[1])
           /\ phase' = IF escaped THEN "raised" ELSE nxt[1]
           /\ i' = IF escaped THEN i ELSE nxt[2]
           /\ j' = IF escaped THEN j ELSE nxt[3]
           /\ run' = [run EXCEPT
                        !.fkQueried = Append(@, table[1]),
                        !.fkQueryFailed = IF qfail THEN @ \cup {table[1]} ELSE @,
                        !.excs = @ + (IF qfail THEN 1 ELSE 0)]
    /\ UNCHANGED <<api, dbc, invoked, files, db, committed, op, prev, nops>>

\* lines 215-233: one declared relation.
SetFkUnit ==
    /\ op = "set" /\ phase = "fk" /\ j >= 1
    /\ \E f \in FailPoints \ {"query"} :
        LET table == tables_pk_fk[i]
            fk_reference == table[3][j]
            r == FkUnit(table, fk_reference, result, f)
            nxt == IF r.exc THEN FkAfterException(i, j) ELSE FkNext(i, j)
            escaped == r.exc /\ ~SetInTry(r.site)
            charged == IF f = "none" \/ r.free THEN 0 ELSE 1
        IN /\ r.hit
           /\ charged = 1 => nfail < MaxFail
           /\ nfail' = nfail + charged
           /\ db' = r.db
           /\ committed' = r.committed
           /\ phase' = IF escaped THEN "raised" ELSE nxt[1]
           /\ i' = IF escaped THEN i ELSE nxt[2]
           /\ j' = IF escaped THEN j ELSE nxt[3]
           /\ run' = [run EXCEPT
                        !.fkTried = Append(@, <<table[1], fk_reference[1]>>),
                        !.fkFailed = IF r.exc
                                     THEN @ \cup {<<table[1], fk_reference[1]>>}
                                     ELSE @,
                        !.fkPresent = IF r.present
                                      THEN @ \cup {<<table[1], fk_reference[1]>>}
                                      ELSE @,
                        !.fkSkipped = IF r.skipped
                                      THEN @ \cup {<<table[1], fk_reference[1]>>}
                                      ELSE @,
                        !.fkDdl = @ + r.ddl,
                        !.fkCommits = @ + r.commits,
                        !.excs = @ + (IF r.exc THEN 1 ELSE 0)]
    /\ UNCHANGED <<api, dbc, invoked, files, op, result, prev, nops>>

\* The call returns to its caller.
Return ==
    /\ op # "idle" /\ phase = "done"
    /\ op' = "idle" /\ phase' = "idle" /\ i' = 0 /\ j' = 0 /\ result' = {}
    /\ prev' = [NoCall EXCEPT !.op = run.op, !.clean = run.excs = 0,
                              !.before = run.before,
                              !.pkClean = run.pkFailed = {}]
    /\ run' = NoRun
    /\ UNCHANGED <<api, dbc, invoked, files, db, committed, nops, nfail>>

-----------------------------------------------------------------------------
(* drop_pk_and_fk *)

\* Both phases of drop_pk_and_fk sit inside a try ... except Exception.
DropInTry(site) == site \in {"dropfk", "droppk"}

\* The rows of a catalog query in the order the server returns them.
RECURSIVE SeqOf(_)
SeqOf(S) ==
    IF S = {} THEN <<>>
    ELSE LET x == CHOOSE y \in S : TRUE IN <<x>> \o SeqOf(S \ {x})

\* query_fk naming only the nine tables of query_pk.
ListedFksNine(d) == {x \in d.fk : x.tab \in DropPkTables}

\* query_fk of drop_pk_and_fk: the foreign keys owned by the listed tables.
ListedFks(d) == {x \in d.fk : x.tab \in DropFkTables}

\* query_pk of drop_pk_and_fk: the key constraints of the listed tables.
ListedPks(d) == {t \in DropPkTables : d.pk[t] # None}

\* for elem in result_fk: execute(elem[0]); statement number k fails (0: none).
RECURSIVE DropFks(_, _, _)
DropFks(d, seq, k) ==
    IF seq = <<>> THEN [db |-> d, exc |-> FALSE, n |-> 0]
    ELSE IF k = 1 THEN [db |-> d, exc |-> TRUE, n |-> 0]
    ELSE LET r == DropFks([d EXCEPT !.fk = @ \ {Head(seq)}], Tail(seq), k - 1)
         IN [r EXCEPT !.n = @ + 1]

\* DROP CONSTRAINT of a primary key is refused while a foreign key references it.
DropPkOk(d, t) == ~ \E x \in d.fk : x.ref = t

\* for elem in result_pk: execute(elem[0]); statement number k fails (0: none).
RECURSIVE DropPks(_, _, _)
DropPks(d, seq, k) ==
    IF seq = <<>> THEN [db |-> d, exc |-> FALSE, n |-> 0]
    ELSE IF k = 1 \/ ~DropPkOk(d, Head(seq)) THEN [db |-> d, exc |-> TRUE, n |-> 0]
    ELSE LET r == DropPks([d EXCEPT !.pk[Head(seq)] = None], Tail(seq), k - 1)
         IN [r EXCEPT !.n = @ + 1]

\* The first phase of drop_pk_and_fk (lines 241-271).
DropFirstPhase == "dropfk"

\* The key phase entered although the foreign-key phase raised.
DropAfterFkContinue(exc) == "droppk"

\* except Exception ...: return (line 268); otherwise the key phase follows.
DropAfterFk(exc) == IF exc THEN "done" ELSE "droppk"

\* Where drop_pk_and_fk leaves its caller: clean_database goes on with its
\* table loop (line 750), a direct call has ended.
AfterDrop(name, ph) == IF name = "clean" /\ ph = "done" THEN "tables" ELSE ph

DropStart ==
    /\ op = "idle" /\ nops < MaxOps
    /\ op' = "drop" /\ phase' = DropFirstPhase /\ i' = 0 /\ j' = 0 /\ result' = {}
    /\ run' = NewRun("drop")
    /\ nops' = nops + 1
    /\ UNCHANGED <<api, dbc, invoked, files, db, committed, prev, nfail>>

\* lines 246-268: look up the foreign keys, drop each, commit.
DropFkPhase ==
    /\ op \in {"drop", "clean"} /\ phase = "dropfk"
    /\ \E f \in {"none", "query", "drop", "commit"} :
       \E k \in 1..(Cardinality(ListedFks(db)) + 1) :
        LET qfail == dbc # "full" \/ f = "query"
            seq == SeqOf(ListedFks(db))
            r == IF qfail THEN [db |-> db, exc |-> TRUE, n |-> 0]
                 ELSE DropFks(db, seq, IF f = "drop" THEN k ELSE 0)
            cok == ~r.exc /\ f # "commit"
            exc == ~cok
            escaped == exc /\ ~DropInTry("dropfk")
        IN /\ f = "drop" => k <= Len(seq)
           /\ f # "drop" => k = 1
           /\ f = "query" => dbc = "full"
           /\ f = "commit" => ~qfail
           /\ f # "none" => nfail < MaxFail
           /\ nfail' = nfail + Injected(f)
           /\ db' = r.db
           /\ committed' = IF cok THEN r.db ELSE committed
           /\ phase' = IF escaped THEN "raised" ELSE AfterDrop(op, DropAfterFk(exc))
           /\ i' = IF phase' = "tables" THEN 1 ELSE i
           /\ run' = [run EXCEPT !.excs = @ + (IF exc THEN 1 ELSE 0),
                                 !.injected = @ + Injected(f),
                                 !.dropRan = TRUE]
    /\ UNCHANGED <<api, dbc, invoked, files, op, j, result, prev, nops>>

\* lines 273-299: look up the key constraints, drop each, commit.
DropPkPhase ==
    /\ op \in {"drop", "clean"} /\ phase = "droppk"
    /\ \E f \in {"none", "query", "drop", "commit"} :
       \E k \in 1..(Cardinality(ListedPks(db)) + 1) :
        LET qfail == dbc # "full" \/ f = "query"
            seq == SeqOf(ListedPks(db))
            r == IF qfail THEN [db |-> db, exc |-> TRUE, n |-> 0]
                 ELSE DropPks(db, seq, IF f = "drop" THEN k ELSE 0)
            cok == ~r.exc /\ f # "commit"
            exc == ~cok
            escaped == exc /\ ~DropInTry("droppk")
        IN /\ f = "drop" => k <= Len(seq)
           /\ f # "drop" => k = 1
           /\ f = "query" => dbc = "full"
           /\ f = "commit" => ~qfail /\ ~r.exc
           /\ f # "none" => nfail < MaxFail
           /\ nfail' = nfail + Injected(f)
           /\ db' = r.db
           /\ committed' = IF cok THEN r.db ELSE committed
           /\ phase' = IF escaped THEN "raised" ELSE AfterDrop(op, "done")
           /\ i' = IF phase' = "tables" THEN 1 ELSE i
           /\ run' = [run EXCEPT
                        !.injected = @ + Injected(f),
                        !.pkLooked = ~qfail \/ @,
                        !.fkLeft = IF qfail THEN @
                                   ELSE ListedFks(db) \cup ListedFks(committed),
                        !.pkDropped = @ + r.n,
                        !.excs = @ + (IF exc THEN 1 ELSE 0)]
    /\ UNCHANGED <<api, dbc, invoked, files, op, j, result, prev, nops>>

-----------------------------------------------------------------------------
(* The export helper and the loaders *)

\* OrtecAPI.__possible_outputs, OrtecAPI.__possible_modes
possible_outputs == {"csv", "sql", "csv-sql"}

possible_modes == {"append", "replace"}

\* The check written with `and`: False only when both are wrong.
check_output_and_mode_both(output, mode) ==
    ~(output \notin possible_outputs /\ mode \notin possible_modes)

\* OrtecAPI.__check_output_and_mode
check_output_and_mode(output, mode) ==
    ~(output \notin possible_outputs \/ mode \notin possible_modes)

\* The pyodbc connection (schema d) holds uncommitted DDL on table t (c is
\* the durable schema): a statement of the engine's connection on t cannot
\* complete.
Pending(d, c, t) ==
    \/ (t \in d.tables) # (t \in c.tables)
    \/ d.pk[t] # c.pk[t]
    \/ {x \in d.fk : x.tab = t} # {x \in c.fk : x.tab = t}
    \/ {a \in d.alt : a[1] = t} # {a \in c.alt : a[1] = t}

\* DROP TABLE t is refused while a foreign key of another table references t.
DropTableOk(d, t) == ~ \E x \in d.fk : x.ref = t /\ x.tab # t

\* df.to_sql(t, engine, if_exists=mode): whether it succeeds.
ToSqlOk(d, c, t, mode) ==
    /\ dbc # "none"
    /\ ~Pending(d, c, t)
    /\ (t \in c.tables /\ mode = "replace") => DropTableOk(c, t)

\* The columns of the frame of table t that hold values with no matching row
\* in the referenced table: players_stats_export writes the players of both
\* teams of the match, persons_export the persons of the one team asked for.
FrameOrphans(t) ==
    IF t = tables.table_playerstats THEN {<<t, "PersonID">>} ELSE {}

\* to_sql that inserts into an existing table whatever the mode.
ToSqlInsertOnly(d, t, mode) ==
    IF t \notin d.tables
    THEN [d EXCEPT !.tables = @ \cup {t},
                   !.rows[t] = <<"frame">>,
                   !.orph = @ \cup FrameOrphans(t)]
    ELSE [d EXCEPT !.rows[t] = Append(@, "frame"),
                   !.orph = @ \cup FrameOrphans(t)]

\* df.to_sql(t, engine, if_exists=mode): a missing table is created from the
\* frame; 'replace' drops an existing table (with its rows and constraints)
\* and creates it again; then the rows of the frame are inserted.
ToSql(d, t, mode) ==
    IF t \notin d.tables
    THEN [d EXCEPT !.tables = @ \cup {t},
                   !.rows[t] = <<"frame">>,
                   !.orph = @ \cup FrameOrphans(t)]
    ELSE IF mode = "replace"
         THEN [d EXCEPT !.pk[t] = None,
                        !.fk = {x \in @ : x.tab # t},
                        !.alt = {a \in @ : a[1] # t},
                        !.rows[t] = <<"frame">>,
                        !.orph = {o \in @ : o[1] # t} \cup FrameOrphans(t)]
         ELSE [d EXCEPT !.rows[t] = Append(@, "frame"),
                        !.orph = @ \cup FrameOrphans(t)]

\* OrtecAPI.__export(df, table, output, mode) on the schemas d (connection)
\* and c (durable) and the files fs, with a failure of to_sql injected when
\* fail is TRUE.  path_to_results is set only when the constructor reached
\* the API.
Export(d, c, fs, t, output, mode, fail) ==
    LET csv == output \in {"csv", "csv-sql"}
        sql == output \in {"sql", "csv-sql"}
        csvOk == api = "ok"
        sqlOk == (csv => csvOk) /\ sql /\ ~fail /\ ToSqlOk(d, c, t, mode)
    IN [files |-> IF csv /\ csvOk THEN fs \cup {t} ELSE fs,
        db |-> IF sqlOk THEN ToSql(d, t, mode) ELSE d,
        committed |-> IF sqlOk THEN ToSql(c, t, mode) ELSE c,
        created |-> sqlOk /\ (t \notin c.tables \/ mode = "replace"),
        exc |-> (csv /\ ~csvOk) \/ (sql /\ ~sqlOk),
        hit |-> fail => ((csv => csvOk) /\ sql /\ ToSqlOk(d, c, t, mode))]

\* Nothing written, nothing raised.
NoExport(d, c, fs) ==
    [files |-> fs, db |-> d, committed |-> c, created |-> FALSE,
     exc |-> FALSE, hit |-> FALSE, checked |-> FALSE, exported |-> FALSE,
     raised |-> FALSE]

\* teams_stats_export reads self.match_stats before its try block (line 357);
\* the attribute is missing when the constructor did not reach the API.
ReadsStatsBeforeTry(t) == t = tables.table_teamstats

\* One of the nine loaders (players_stats_export ... teams_export) for table
\* t: the check of output and mode, the data of the API (self.match_stats,
\* self.auth: missing when the constructor did not reach the API, which the
\* loader's handler catches), then __export.
OrtecLoader(d, c, fs, t, output, mode, fail) ==
    IF ReadsStatsBeforeTry(t) /\ api # "ok"
    THEN [NoExport(d, c, fs) EXCEPT !.raised = TRUE, !.exc = TRUE]
    ELSE IF ~check_output_and_mode(output, mode) THEN NoExport(d, c, fs)
    ELSE IF api # "ok"
         THEN [NoExport(d, c, fs) EXCEPT !.checked = TRUE, !.exc = TRUE]
    ELSE LET r == Export(d, c, fs, t, output, mode, fail)
         IN [files |-> r.files, db |-> r.db, committed |-> r.committed,
             created |-> r.created, exc |-> r.exc, hit |-> r.hit,
             checked |-> TRUE, exported |-> ~r.exc, raised |-> FALSE]

\* One loader runs from its first statement to its return or its raise.
LoaderCall(t, output, mode) ==
    /\ t \in TableNames \ {tables.table_teamslineup}
    /\ \E fail \in BOOLEAN :
        LET r == OrtecLoader(db, committed, files, t, output, mode, fail)
        IN /\ fail => r.hit
           /\ fail => nfail < MaxFail
           /\ nfail' = nfail + (IF fail THEN 1 ELSE 0)
           /\ files' = r.files
           /\ db' = r.db
           /\ committed' = r.committed
           /\ phase' = IF r.raised THEN "raised" ELSE phase
           /\ prev' = [NoCall EXCEPT !.op = "export", !.clean = ~r.exc,
                                     !.before = Constraints(db),
                                     !.table = t,
                                     !.output = output, !.mode = mode,
                                     !.checked = r.checked,
                                     !.exported = r.exported,
                                     !.created = r.created]

\* A call of one loader.
LoaderExport(t, output, mode) ==
    /\ op = "idle" /\ phase = "idle" /\ nops < MaxOps
    /\ LoaderCall(t, output, mode)
    /\ nops' = nops + 1
    /\ UNCHANGED <<api, dbc, invoked, op, i, j, result, run>>

-----------------------------------------------------------------------------
(* export_team_lineups *)

\* The rows of query_pk of export_team_lineups: the columns of the PRIMARY KEY
\* and FOREIGN KEY constraints of Persons and Teams.
LineupKeyColumns(d) ==
    QueryPk(d, tables.table_persons) \cup QueryFk(d, tables.table_persons)
    \cup QueryPk(d, tables.table_teams) \cup QueryFk(d, tables.table_teams)

\* CREATE TABLE TeamsLineUp(TeamID ... REFERENCES Teams (Id),
\*                          PersonID ... REFERENCES Persons (PersonId))
CreateLineUpOk(d) ==
    /\ tables.table_teamslineup \notin d.tables
    /\ tables.table_teams \in d.tables
    /\ d.pk[tables.table_teams] \in ResolveCol(tables.table_teams, "Id")
    /\ tables.table_persons \in d.tables
    /\ d.pk[tables.table_persons] \in ResolveCol(tables.table_persons, "PersonId")

CreateLineUp(d) ==
    LET t == tables.table_teamslineup
        d0 == [d EXCEPT !.tables = @ \cup {t}]
        d1 == AddForeignKey(d0, t, "TeamID", tables.table_teams, "Id")
    IN AddForeignKey(d1, t, "PersonID", tables.table_persons, "PersonId")

\* The keys export_team_lineups relies upon, on their own tables.
LineupKeysSet(d) ==
    /\ d.pk[tables.table_teams] = "Id"
    /\ d.pk[tables.table_persons] = "PersonID"
    /\ \E x \in d.fk : x.tab = tables.table_persons /\ x.col = "DefaultPosition"

\* export_team_lineups runs from its first statement to its return.
LineupsCall(output, mode) ==
    /\ \E f \in {"none", "inspect", "query", "create", "commit", "to_sql"} :
        LET t == tables.table_teamslineup
            ifail == dbc = "none" \/ f = "inspect"
            check == /\ tables.table_persons \in committed.tables
                     /\ tables.table_teams \in committed.tables
                     /\ ~(t \in committed.tables)
            qfail == dbc # "full" \/ f = "query"
            keysFound == {"DefaultPosition", "PersonID", "Id"}
                              \subseteq LineupKeyColumns(db)
            doCreate == ~ifail /\ check /\ ~qfail /\ keysFound
            c1 == doCreate /\ f # "create" /\ CreateLineUpOk(db)
            d1 == IF c1 THEN CreateLineUp(db) ELSE db
            cok == c1 /\ f # "commit"
            com1 == IF cok THEN d1 ELSE committed
            exc1 == ifail \/ (check /\ (qfail \/ (doCreate /\ ~cok)))
            go == ~exc1 /\ check_output_and_mode(output, mode) /\ api = "ok"
            r == IF go THEN Export(d1, com1, files, t, output, mode, f = "to_sql")
                 ELSE [files |-> files, db |-> d1, committed |-> com1,
                       created |-> FALSE, exc |-> FALSE, hit |-> FALSE]
        IN /\ \/ f = "none"
              \/ f = "inspect" /\ dbc # "none"
              \/ f = "query" /\ ~ifail /\ check /\ dbc = "full"
              \/ f = "create" /\ doCreate /\ CreateLineUpOk(db)
              \/ f = "commit" /\ c1
              \/ f = "to_sql" /\ r.hit
           /\ f # "none" => nfail < MaxFail
           /\ nfail' = nfail + Injected(f)
           /\ files' = r.files
           /\ db' = r.db
           /\ committed' = r.committed
           /\ prev' = [NoCall EXCEPT
                         !.op = "lineups",
                         !.clean = ~exc1 /\ ~r.exc,
                         !.before = Constraints(db),
                         !.output = output, !.mode = mode,
                         !.existed = t \in committed.tables,
                         !.refs = {tables.table_persons, tables.table_teams}
                                      \subseteq committed.tables,
                         !.keyed = LineupKeysSet(db),
                         !.createIssued = doCreate /\ f # "create",
                         !.created = c1 \/ r.created]

\* A call of export_team_lineups.
ExportTeamLineups(output, mode) ==
    /\ op = "idle" /\ nops < MaxOps
    /\ LineupsCall(output, mode)
    /\ nops' = nops + 1
    /\ UNCHANGED <<api, dbc, invoked, op, phase, i, j, result, run>>

-----------------------------------------------------------------------------
(* CoostoAPI: the check, the export helper and the five exports *)

\* CoostoAPI.__possible_outputs, CoostoAPI.__possible_modes
coosto_possible_outputs == {"csv", "sql", "csv-sql"}

coosto_possible_modes == {"append", "replace"}

\* CoostoAPI.__check_output_and_mode
coosto_check_output_and_mode(output, mode) ==
    ~(output \notin coosto_possible_outputs \/ mode \notin coosto_possible_modes)

\* CoostoAPI.__export(df, table, output, mode); path_to_results is set by the
\* constructor whether or not the login succeeded.
CoostoExport(d, c, fs, t, output, mode, fail) ==
    LET csv == output \in {"csv", "csv-sql"}
        sql == output \in {"sql", "csv-sql"}
        sqlOk == sql /\ ~fail /\ ToSqlOk(d, c, t, mode)
    IN [files |-> IF csv THEN fs \cup {t} ELSE fs,
        db |-> IF sqlOk THEN ToSql(d, t, mode) ELSE d,
        committed |-> IF sqlOk THEN ToSql(c, t, mode) ELSE c,
        created |-> sqlOk /\ (t \notin c.tables \/ mode = "replace"),
        exc |-> sql /\ ~sqlOk,
        hit |-> fail => (sql /\ ToSqlOk(d, c, t, mode))]

\* One of the five exports (export_saved_queries ... export_authors) for
\* table t: the check, `with self.login_api:` (the attribute is missing when
\* the login request raised; the statement is outside the try block), the
\* data of the API, then __export.
CoostoLoader(d, c, fs, t, output, mode, fail) ==
    IF ~coosto_check_output_and_mode(output, mode) THEN NoExport(d, c, fs)
    ELSE IF api # "ok"
         THEN [NoExport(d, c, fs) EXCEPT !.checked = TRUE, !.raised = TRUE,
                                         !.exc = TRUE]
    ELSE LET r == CoostoExport(d, c, fs, t, output, mode, fail)
         IN [files |-> r.files, db |-> r.db, committed |-> r.committed,
             created |-> r.created, exc |-> r.exc, hit |-> r.hit,
             checked |-> TRUE, exported |-> ~r.exc, raised |-> FALSE]

\* A call of one export of CoostoAPI by the main program.
CoostoExportCall(t, output, mode) ==
    /\ op = "idle" /\ phase = "idle" /\ nops < MaxOps
    /\ t \in CoostoTableNames
    /\ \E fail \in BOOLEAN :
        LET r == CoostoLoader(db, committed, files, t, output, mode, fail)
        IN /\ fail => r.hit
           /\ fail => nfail < MaxFail
           /\ nfail' = nfail + (IF fail THEN 1 ELSE 0)
           /\ files' = r.files
           /\ db' = r.db
           /\ committed' = r.committed
           /\ phase' = IF r.raised THEN "raised" ELSE phase
           /\ prev' = [NoCall EXCEPT !.op = "coosto_export", !.clean = ~r.exc,
                                     !.before = Constraints(db),
                                     !.table = t,
                                     !.output = output, !.mode = mode,
                                     !.checked = r.checked,
                                     !.exported = r.exported,
                                     !.created = r.created]
    /\ nops' = nops + 1
    /\ UNCHANGED <<api, dbc, invoked, op, i, j, result, run>>

-----------------------------------------------------------------------------
(* export_all of both APIs *)

\* CoostoAPI.export_all, lines 363-367: the exports it invokes, in order, with
\* the output and mode it passes to each.
CoostoExportAllCalls(output, mode) ==
    << <<coosto_tables.table_projects, output, mode>>,
       <<coosto_tables.table_topics, output, mode>>,
       <<coosto_tables.table_sources, output, mode>>,
       <<coosto_tables.table_sentiment, output, "append">>,
       <<coosto_tables.table_authors, output, mode>> >>

\* OrtecAPI.export_all, lines 730-740: the exports it invokes, in order.
OrtecExportAllCalls(output, mode, incl_meta) ==
    << <<tables.table_playerstats, output, mode>>,
       <<tables.table_teamstats, output, mode>>,
       <<tables.table_persons, output, mode>>,
       <<tables.table_matches, output, mode>> >>
    \o (IF incl_meta
        THEN << <<tables.table_teamstatsmeta, output, mode>>,
                <<tables.table_playerstatsmeta, output, mode>>,
                <<tables.table_positionsmeta, output, mode>>,
                <<tables.table_venuesmeta, output, mode>>,
                <<tables.table_teams, output, mode>> >>
        ELSE <<>>)

\* The exports export_all of `name` invokes for the arguments args.
ExportAllCalls(name, args) ==
    IF name = "coosto_export_all"
    THEN CoostoExportAllCalls(args[1], args[2])
    ELSE OrtecExportAllCalls(args[1], args[2], args[3])

\* if output not in ... or mode not in ...: (ortec.py 725, coosto.py 358)
ExportAllGuard(name, output, mode) ==
    IF name = "coosto_export_all"
    THEN ~(output \notin coosto_possible_outputs \/ mode \notin coosto_possible_modes)
    ELSE ~(output \notin possible_outputs \/ mode \notin possible_modes)

\* export_all(output, mode[, incl_meta]) is called.
ExportAllStart(name, output, mode, incl_meta) ==
    /\ op = "idle" /\ phase = "idle" /\ nops < MaxOps
    /\ name \in {"ortec_export_all", "coosto_export_all"}
    /\ name = "coosto_export_all" => ~incl_meta
    /\ op' = name
    /\ phase' = IF ExportAllGuard(name, output, mode) THEN "exporting" ELSE "done"
    /\ i' = 1 /\ j' = 0 /\ result' = {}
    /\ run' = [NewRun(name) EXCEPT !.args = <<output, mode, incl_meta>>]
    /\ nops' = nops + 1
    /\ UNCHANGED <<api, dbc, invoked, files, db, committed, prev, nfail>>

\* The next export of export_all runs to its end.
ExportAllStep ==
    /\ op \in {"ortec_export_all", "coosto_export_all"} /\ phase = "exporting"
    /\ \E fail \in BOOLEAN :
        LET calls == ExportAllCalls(op, run.args)
            call == calls[i]
            r == IF op = "coosto_export_all"
                 THEN CoostoLoader(db, committed, files, call[1], call[2], call[3], fail)
                 ELSE OrtecLoader(db, committed, files, call[1], call[2], call[3], fail)
        IN /\ fail => r.hit
           /\ fail => nfail < MaxFail
           /\ nfail' = nfail + (IF fail THEN 1 ELSE 0)
           /\ files' = r.files
           /\ db' = r.db
           /\ committed' = r.committed
           /\ phase' = IF r.raised THEN "raised"
                       ELSE IF i < Len(calls) THEN "exporting" ELSE "done"
           /\ i' = IF r.raised \/ i = Len(calls) THEN i ELSE i + 1
           /\ run' = [run EXCEPT !.calls = Append(@, call),
                                 !.injected = @ + (IF fail THEN 1 ELSE 0),
                                 !.excs = @ + (IF r.exc THEN 1 ELSE 0)]
    /\ UNCHANGED <<api, dbc, invoked, op, j, result, prev, nops>>

-----------------------------------------------------------------------------
(* OrtecAPI.clean_database *)

\* for table in self.__tables.values(): the order of the dictionary.
CleanTables ==
    <<tables.table_teams, tables.table_persons, tables.table_playerstats,
      tables.table_playerstatsmeta, tables.table_teamstats,
      tables.table_teamstatsmeta, tables.table_positionsmeta,
      tables.table_venuesmeta, tables.table_matches, tables.table_teamslineup>>

\* DELETE FROM t is refused while rows of another table reference rows of t.
DeleteRowsOk(d, t) ==
    /\ t \in d.tables
    /\ ~ \E x \in d.fk : x.ref = t /\ x.tab # t
                         /\ d.rows[x.tab] # <<>> /\ d.rows[t] # <<>>

\* DROP TABLE t / DELETE FROM t
CleanStatementOk(d, t, delete_tables) ==
    IF delete_tables THEN t \in d.tables /\ DropTableOk(d, t)
    ELSE DeleteRowsOk(d, t)

CleanStatement(d, t, delete_tables) ==
    IF delete_tables
    THEN [d EXCEPT !.tables = @ \ {t}, !.pk[t] = None,
                   !.fk = {x \in @ : x.tab # t},
                   !.alt = {a \in @ : a[1] # t},
                   !.rows[t] = <<>>,
                   !.orph = {o \in @ : o[1] # t}]
    ELSE [d EXCEPT !.rows[t] = <<>>, !.orph = {o \in @ : o[1] # t}]

\* The position after the iteration of table k of the table loop.
CleanNext(k) == IF k < Len(CleanTables) THEN <<"tables", k + 1>> ELSE <<"done", k>>

\* break instead of continue in the handler of the table loop.
CleanAfterExceptionBreak(k) == <<"done", k>>

\* except Exception ...: continue  (line 763)
CleanAfterException(k) == CleanNext(k)

\* self.drop_pk_and_fk() is the first statement of clean_database (line 748).
CleanFirstPhase(name) == DropFirstPhase

\* clean_database(delete_tables) is called; it calls drop_pk_and_fk first.
CleanStart(delete_tables) ==
    /\ op = "idle" /\ phase = "idle" /\ nops < MaxOps
    /\ op' = "clean" /\ phase' = CleanFirstPhase("clean")
    /\ i' = (IF phase' = "tables" THEN 1 ELSE 0)
    /\ j' = 0 /\ result' = {}
    /\ run' = [NewRun("clean") EXCEPT !.args = <<delete_tables>>]
    /\ nops' = nops + 1
    /\ UNCHANGED <<api, dbc, invoked, files, db, committed, prev, nfail>>

\* lines 750-766: one table of the loop.
CleanTable ==
    /\ op = "clean" /\ phase = "tables"
    /\ \E f \in {"none", "execute", "commit"} :
        LET t == CleanTables[i]
            delete_tables == run.args[1]
            ok == dbc = "full" /\ f # "execute"
                     /\ CleanStatementOk(db, t, delete_tables)
            d1 == IF ok THEN CleanStatement(db, t, delete_tables) ELSE db
            cok == ok /\ f # "commit"
            nxt == IF cok THEN CleanNext(i) ELSE CleanAfterException(i)
        IN /\ f = "execute" => dbc = "full" /\ CleanStatementOk(db, t, delete_tables)
           /\ f = "commit" => ok
           /\ f # "none" => nfail < MaxFail
           /\ nfail' = nfail + Injected(f)
           /\ db' = d1
           /\ committed' = IF cok THEN d1 ELSE committed
           /\ phase' = nxt[1] /\ i' = nxt[2]
           /\ run' = [run EXCEPT !.cleaned = Append(@, t),
                                 !.cleanFailed = IF cok THEN @ ELSE @ \cup {t},
                                 !.injected = @ + Injected(f),
                                 !.excs = @ + (IF cok THEN 0 ELSE 1)]
    /\ UNCHANGED <<api, dbc, invoked, files, op, j, result, prev, nops>>

-----------------------------------------------------------------------------
(* The program *)

\* The tables as the loaders leave them: the rows of their frames, no
\* constraint yet.
Loaded(ts) ==
    [EmptyDb EXCEPT !.tables = ts,
                    !.rows = [t \in AllTables |->
                                 IF t \in ts THEN <<"frame">> ELSE <<>>],
                    !.orph = UNION {FrameOrphans(t) : t \in ts}]

\* The schema a set_pk_and_fk run without failures leaves on the loaded tables.
RECURSIVE KeyPks(_, _)
KeyPks(d, k) ==
    IF k > NTables THEN d
    ELSE LET table == tables_pk_fk[k]
         IN IF table[2] = None THEN KeyPks(d, k + 1)
            ELSE KeyPks(AddPrimaryKey(AlterColumn(d, table[1], table[2]),
                                      table[1], table[2]), k + 1)

RECURSIVE KeyFks(_, _, _)
KeyFks(d, k, jj) ==
    IF k > NTables THEN d
    ELSE LET table == tables_pk_fk[k]
         IN IF Len(table) # 3 \/ jj > Len(table[3]) THEN KeyFks(d, k + 1, 1)
            ELSE LET st == FkStatement(table, table[3][jj])
                 IN KeyFks(AddForeignKey(AlterColumn(d, st.tab, st.col),
                                         st.tab, st.col, st.ref, st.refcol),
                           k, jj + 1)

Keyed == KeyFks(KeyPks(Loaded(DropPkTables), 1), 1, 1)

\* The databases a process may find when it starts: no table yet, the tables
\* of the nine loaders (all, or all but one), or these tables with the keys
\* an earlier process has set.
InitDbs ==
    {EmptyDb, Loaded(DropPkTables),
     Loaded(DropPkTables \ {tables.table_venuesmeta}), Keyed}

\* The tables, outputs and modes the loaders are called with.
LoaderCalls ==
    {<<tables.table_playerstats, "sql", "replace">>,
     <<tables.table_teams, "sql", "replace">>,
     <<tables.table_teams, "xml", "append">>}

LineupCalls == {"csv", "sql"} \X {"append", "replace"}

Init ==
    /\ api = "ok"
    /\ dbc \in {"full", "engine", "none"}
    /\ files = {}
    /\ db \in InitDbs
    /\ committed = db
    /\ op = "idle" /\ phase = "idle" /\ i = 0 /\ j = 0 /\ result = {}
    /\ run = NoRun
    /\ prev = NoCall
    /\ nops = 0
    /\ nfail = 0
    /\ invoked = <<>>

Next ==
    \/ SetStart
    \/ SetPkUnit
    \/ SetFkSkip
    \/ SetFkQuery
    \/ SetFkUnit
    \/ DropStart
    \/ DropFkPhase
    \/ DropPkPhase
    \/ Return
    \/ \E c \in LoaderCalls : LoaderExport(c[1], c[2], c[3])
    \/ \E c \in LineupCalls : ExportTeamLineups(c[1], c[2])

Spec == Init /\ [][Next]_vars

-----------------------------------------------------------------------------
(* The exports and the cleaning, by both APIs on the one database *)

\* The outputs and modes the exports are called with: the valid ones and
\* some that are not.
Outputs == {"csv", "sql", "csv-sql", "xml"}

Modes == {"append", "replace", "overwrite"}

\* The tables whose export the main program calls on its own.
SingleExports == {tables.table_teamstats, tables.table_matches}

CoostoSingleExports == {coosto_tables.table_sentiment}

\* A database that earlier runs have filled: every table of both APIs exists
\* with rows that differ from the frames of the coming exports, the keys set.
Filled ==
    LET d == CreateLineUp(Keyed)
    IN [d EXCEPT !.tables = AllTables,
                 !.rows = [t \in AllTables |-> <<"old">>]]

ExportInitDbs == {EmptyDb, Keyed, Filled}

InitExport ==
    /\ api \in {"ok", "down"}
    /\ dbc \in {"full", "none"}
    /\ files = {}
    /\ db \in ExportInitDbs
    /\ committed = db
    /\ op = "idle" /\ phase = "idle" /\ i = 0 /\ j = 0 /\ result = {}
    /\ run = NoRun
    /\ prev = NoCall
    /\ nops = 0
    /\ nfail = 0
    /\ invoked = <<>>

\* The number of calls one run of the exporting program makes.
MaxExportOps == 2

NextExport ==
    \/ /\ nops < MaxExportOps
       /\ \E t \in SingleExports, o \in Outputs, m \in Modes : LoaderExport(t, o, m)
    \/ /\ nops < MaxExportOps
       /\ \E t \in CoostoSingleExports, o \in Outputs, m \in Modes :
             CoostoExportCall(t, o, m)
    \/ /\ nops < MaxExportOps
       /\ \E o \in Outputs, m \in Modes : ExportTeamLineups(o, m)
    \/ /\ nops < MaxExportOps
       /\ \E o \in Outputs, m \in Modes, incl_meta \in BOOLEAN :
             ExportAllStart("ortec_export_all", o, m, incl_meta)
    \/ /\ nops < MaxExportOps
       /\ \E o \in Outputs, m \in Modes :
             ExportAllStart("coosto_export_all", o, m, FALSE)
    \/ ExportAllStep
    \/ /\ nops < MaxExportOps
       /\ \E delete_tables \in BOOLEAN : CleanStart(delete_tables)
    \/ DropFkPhase
    \/ DropPkPhase
    \/ CleanTable
    \/ Return

SpecExport == InitExport /\ [][NextExport]_vars

-----------------------------------------------------------------------------
(* The main program (src/main.py) *)

\* set_pk_and_fk called ahead of the exports.
MainCallsKeysFirst ==
    << [name |-> "set_pk_and_fk", kind |-> "set", table |-> None],
       [name |-> "players_stats_export", kind |-> "loader",
        table |-> tables.table_playerstats],
       [name |-> "teams_stats_export", kind |-> "loader",
        table |-> tables.table_teamstats],
       [name |-> "player_stats_meta_export", kind |-> "loader",
        table |-> tables.table_playerstatsmeta],
       [name |-> "team_stats_meta_export", kind |-> "loader",
        table |-> tables.table_teamstatsmeta],
       [name |-> "positions_meta_export", kind |-> "loader",
        table |-> tables.table_positionsmeta],
       [name |-> "venues_meta_export", kind |-> "loader",
        table |-> tables.table_venuesmeta],
       [name |-> "match_info_export", kind |-> "loader",
        table |-> tables.table_matches],
       [name |-> "persons_export", kind |-> "loader",
        table |-> tables.table_persons],
       [name |-> "teams_export", kind |-> "loader",
        table |-> tables.table_teams],
       [name |-> "export_team_lineups", kind |-> "lineups",
        table |-> tables.table_teamslineup],
       [name |-> "coosto_export_all", kind |-> "coosto", table |-> None],
       [name |-> "close_connection", kind |-> "close", table |-> None] >>

\* The calls of the main program in the order of lines 16-37, each with the
\* table its export writes.
MainCalls ==
    << [name |-> "players_stats_export", kind |-> "loader",
        table |-> tables.table_playerstats],
       [name |-> "teams_stats_export", kind |-> "loader",
        table |-> tables.table_teamstats],
       [name |-> "player_stats_meta_export", kind |-> "loader",
        table |-> tables.table_playerstatsmeta],
       [name |-> "team_stats_meta_export", kind |-> "loader",
        table |-> tables.table_teamstatsmeta],
       [name |-> "positions_meta_export", kind |-> "loader",
        table |-> tables.table_positionsmeta],
       [name |-> "venues_meta_export", kind |-> "loader",
        table |-> tables.table_venuesmeta],
       [name |-> "match_info_export", kind |-> "loader",
        table |-> tables.table_matches],
       [name |-> "persons_export", kind |-> "loader",
        table |-> tables.table_persons],
       [name |-> "teams_export", kind |-> "loader",
        table |-> tables.table_teams],
       [name |-> "export_team_lineups", kind |-> "lineups",
        table |-> tables.table_teamslineup],
       [name |-> "set_pk_and_fk", kind |-> "set", table |-> None],
       [name |-> "coosto_export_all", kind |-> "coosto", table |-> None],
       [name |-> "close_connection", kind |-> "close", table |-> None] >>

\* The arguments of the main program: output='csv' everywhere, the mode left
\* to the default of the method.
MainOutput == "csv"

\* The next call of the main program is of kind k: the previous call has
\* returned (an exception that leaves a call ends the try block of line 10).
MainAt(k) ==
    /\ op = "idle" /\ phase = "idle"
    /\ Len(invoked) < Len(MainCalls)
    /\ MainCalls[Len(invoked) + 1].kind = k

MainCalled == invoked' = Append(invoked, MainCalls[Len(invoked) + 1].name)

\* lines 17-25: one of the nine loaders (default mode 'replace').
MainLoader ==
    /\ MainAt("loader")
    /\ LoaderCall(MainCalls[Len(invoked) + 1].table, MainOutput, "replace")
    /\ MainCalled
    /\ UNCHANGED <<api, dbc, op, i, j, result, run, nops>>

\* line 26: export_team_lineups (default mode 'append').
MainLineups ==
    /\ MainAt("lineups")
    /\ LineupsCall(MainOutput, "append")
    /\ MainCalled
    /\ UNCHANGED <<api, dbc, op, phase, i, j, result, run, nops>>

\* line 29: set_pk_and_fk is entered; its units follow as its own steps.
MainSetPkAndFk ==
    /\ MainAt("set")
    /\ op' = "set" /\ phase' = "pk" /\ i' = 1 /\ j' = 0 /\ result' = {}
    /\ run' = NewRun("set")
    /\ MainCalled
    /\ UNCHANGED <<api, dbc, files, db, committed, prev, nops, nfail>>

\* line 34: export_all of CoostoAPI (default mode 'replace') is entered.
MainCoostoExportAll ==
    /\ MainAt("coosto")
    /\ op' = "coosto_export_all"
    /\ phase' = IF ExportAllGuard("coosto_export_all", MainOutput, "replace")
                THEN "exporting" ELSE "done"
    /\ i' = 1 /\ j' = 0 /\ result' = {}
    /\ run' = [NewRun("coosto_export_all")
                  EXCEPT !.args = <<MainOutput, "replace", FALSE>>]
    /\ MainCalled
    /\ UNCHANGED <<api, dbc, files, db, committed, prev, nops, nfail>>

\* line 37: close_connection closes the cursor inside its own try block.
MainClose ==
    /\ MainAt("close")
    /\ MainCalled
    /\ UNCHANGED <<api, dbc, files, db, committed, op, phase, i, j, result,
                   run, prev, nops, nfail>>

InitMain ==
    /\ api \in {"ok", "down"}
    /\ dbc \in {"full", "engine", "none"}
    /\ files = {}
    /\ db \in InitDbs
    /\ committed = db
    /\ op = "idle" /\ phase = "idle" /\ i = 0 /\ j = 0 /\ result = {}
    /\ run = NoRun
    /\ prev = NoCall
    /\ nops = 0
    /\ nfail = 0
    /\ invoked = <<>>

NextMain ==
    \/ MainLoader
    \/ MainLineups
    \/ MainSetPkAndFk
    \/ SetPkUnit
    \/ SetFkSkip
    \/ SetFkQuery
    \/ SetFkUnit
    \/ MainCoostoExportAll
    \/ ExportAllStep
    \/ Return
    \/ MainClose

SpecMain == InitMain /\ [][NextMain]_vars

-----------------------------------------------------------------------------
(* Properties *)

\* The table names of the relation list, in list order.
ListedTables == [k \in 1..NTables |-> tables_pk_fk[k][1]]

\* The tables of the list with a declared primary key.
DeclaredPkTables == {tables_pk_fk[k][1] : k \in {n \in 1..NTables : tables_pk_fk[n][2] # None}}

\* Some foreign-key constraint sits on column c (as declared) of table t.
HasFk(d, t, c) == \E x \in d.fk : x.tab = t /\ Fold(x.col) = Fold(c)

\* Table t carries its primary key on column c (as declared).
HasPk(d, t, c) == d.pk[t] # None /\ Fold(d.pk[t]) = Fold(c)

\* Two foreign-key constraints on the same column of the same table.
DuplicateFk(d) == \E x, y \in d.fk : x # y /\ x.tab = y.tab /\ x.col = y.col

\* C1: in a set_pk_and_fk run no foreign-key catalog query and no foreign-key
\* DDL statement is executed before the primary-key pass has attempted every
\* table of the list.
C1_PkPassBeforeFkPass ==
    (op = "set" /\ (run.fkQueried # <<>> \/ run.fkTried # <<>> \/ run.fkDdl > 0))
        => run.pkDone = ListedTables

\* C1 witness: foreign-key DDL has been executed in a run whose primary-key
\* pass had a failing table.
C1_Witness ==
    op = "set" /\ run.fkDdl > 0 /\ run.pkFailed # {} /\ run.pkDdl > 0

\* C2 as stated: in a run that follows a run without failures, the catalog
\* reports an existing primary key for every table of the list, and the
\* primary-key pass issues no ALTER and no commit and leaves the schema alone.
C2_Original ==
    (op = "set" /\ phase \in {"fk", "done"} /\ prev.op = "set" /\ prev.clean
        /\ run.pkFailed = {})
        => /\ run.pkSeen = {ListedTables[k] : k \in 1..NTables}
           /\ run.pkDdl = 0 /\ run.pkCommits = 0
           /\ run.pkEnd = run.before

\* C2 amended: in a run that follows a run whose primary-key pass raised no
\* exception, the primary-key pass issues no ALTER and no commit for any table
\* and leaves the constraints as they were, and the catalog reports an
\* existing primary key for every table with a declared primary key whose
\* catalog query succeeds (it reports none for the tables declared without).
C2_PkPassIdempotent ==
    (op = "set" /\ prev.op = "set" /\ prev.pkClean)
        => /\ run.pkDdl = 0 /\ run.pkCommits = 0
           /\ run.pkEnd = run.before
           /\ \A k \in 1..Len(run.pkDone) :
                LET t == run.pkDone[k]
                IN t \notin run.pkFailed
                      => (t \in run.pkSeen <=> t \in DeclaredPkTables)

\* C2 witness: the primary-key pass of a second run has ended, the first run
\* having added primary keys.
C2_Witness ==
    /\ op = "set" /\ phase = "fk" /\ prev.op = "set" /\ prev.pkClean
    /\ prev.before.pk # run.before.pk
    /\ run.pkSeen = DeclaredPkTables

\* C3 as stated: after a run in which every unit succeeded (Teams.Id is
\* PRIMARY KEY, Matches.HomeTeamId is FOREIGN KEY referencing Teams.Id, once),
\* a second run issues no DDL statement, leaves the constraint set identical
\* and puts no second foreign key on any (table, column).
C3_Original ==
    (op = "set" /\ prev.op = "set" /\ prev.clean
        /\ HasPk(run.before, "Teams", "Id")
        /\ \E x \in run.before.fk : x.tab = "Matches" /\ x.ref = "Teams"
                                    /\ Fold(x.col) = Fold("HomeTeamId")
        /\ ~DuplicateFk(run.before))
        => /\ run.pkDdl + run.fkDdl = 0
           /\ Constraints(db) = run.before
           /\ ~DuplicateFk(db)

\* Every declared primary key and every declared relation is in place.
Reconciled(cs) ==
    \A k \in 1..NTables :
        /\ tables_pk_fk[k][2] # None => HasPk(cs, tables_pk_fk[k][1], tables_pk_fk[k][2])
        /\ Len(tables_pk_fk[k]) = 3 =>
              \A n \in 1..Len(tables_pk_fk[k][3]) :
                 HasFk(cs, tables_pk_fk[k][1], tables_pk_fk[k][3][n][1])

\* C4 as stated: on a database whose keys have been set, drop_pk_and_fk
\* followed by set_pk_and_fk, with no database failure, restores exactly the
\* constraints that existed before the drop, those of TeamsLineUp included.
C4_Original ==
    (op = "set" /\ phase = "done" /\ run.excs = 0
        /\ prev.op = "drop" /\ prev.clean /\ nfail = 0
        /\ Reconciled(prev.before))
        => Constraints(db) = prev.before

\* C5 as stated: export_team_lineups issues the CREATE TABLE only when Persons
\* and Teams exist, TeamsLineUp does not, and the keys relied upon are set; the
\* table is not created when Persons and Teams exist without these keys; no
\* CREATE TABLE is issued when TeamsLineUp exists.
C5_Original ==
    prev.op = "lineups"
        => /\ prev.createIssued => (prev.refs /\ ~prev.existed /\ prev.keyed)
           /\ (prev.refs /\ ~prev.keyed) => ~prev.created
           /\ prev.existed => ~prev.createIssued

\* C6: a failure on one table never aborts the primary-key pass: the tables
\* are attempted once each, in list order, whatever failed before.
C6_PkPassContinues ==
    op = "set"
        => /\ Len(run.pkDone) <= NTables
           /\ run.pkDone = SubSeq(ListedTables, 1, Len(run.pkDone))
           /\ phase \in {"fk", "done"} => run.pkDone = ListedTables

\* C6 witness: the primary-key pass has ended after the unit of its first
\* table had failed.
C6_Witness ==
    /\ op = "set" /\ phase = "fk" /\ dbc = "full"
    /\ "Teams" \in run.pkFailed /\ run.pkDone = ListedTables

\* The tables of the list that declare foreign keys, in list order.
FkTables == SelectSeq(ListedTables,
                      LAMBDA t : \E k \in 1..NTables :
                                    tables_pk_fk[k][1] = t /\ Len(tables_pk_fk[k]) = 3)

\* The declared relations of the tables k, k+1, ... not in `failed`, in order.
RECURSIVE RelationsFrom(_, _)
RelationsFrom(k, failed) ==
    IF k > NTables THEN <<>>
    ELSE LET table == tables_pk_fk[k]
             own == IF Len(table) = 3 /\ table[1] \notin failed
                    THEN [n \in 1..Len(table[3]) |-> <<table[1], table[3][n][1]>>]
                    ELSE <<>>
         IN own \o RelationsFrom(k + 1, failed)

\* C7: in the foreign-key pass every table with declared relations is queried
\* once, and every declared relation of every table whose query succeeded is
\* attempted exactly once, in order, whatever failed before.
C7_FkPassContinues ==
    (op = "set" /\ phase = "done")
        => /\ run.fkQueried = FkTables
           /\ run.fkTried = RelationsFrom(1, run.fkQueryFailed)

\* C7 witness: a run has ended in which one table's catalog query failed and a
\* DDL statement of a relation of another table failed.
C7_Witness ==
    /\ op = "set" /\ phase = "done" /\ dbc = "full"
    /\ run.fkQueryFailed # {} /\ run.fkFailed # {}
    /\ \E r \in run.fkFailed : r[2] \in {"HomeTeamId", "VenueId", "MatchID"}

\* Progress of a call: the position inside the method.
PhaseRank(p) ==
    CASE p = "pk" -> 1 [] p = "fk" -> 2 [] p = "dropfk" -> 1 [] p = "droppk" -> 2
      [] OTHER -> 3

\* A step of a running call moves it forward in its finite loops.
Advances ==
    (op \in {"set", "drop"} /\ phase # "done")
        => \/ PhaseRank(phase') > PhaseRank(phase)
           \/ PhaseRank(phase') = PhaseRank(phase) /\ i' > i
           \/ PhaseRank(phase') = PhaseRank(phase) /\ i' = i /\ j' > j

\* A running call stands at an iteration of one of its loops, or has ended.
ValidPosition ==
    /\ op = "set" =>
         \/ phase = "pk" /\ i \in 1..NTables
         \/ /\ phase = "fk" /\ i \in 1..NTables
            /\ j = 0 \/ (Len(tables_pk_fk[i]) = 3 /\ j \in 1..Len(tables_pk_fk[i][3]))
         \/ phase = "done"
    /\ op = "drop" => phase \in {"dropfk", "droppk", "done"}

\* C8: under every pattern of failures set_pk_and_fk and drop_pk_and_fk never
\* let an exception escape to the caller, and they terminate: a running call
\* always stands at an iteration of its loops and every step moves it forward
\* in these finite loops, until it returns.
C8_ReturnsNormally ==
    /\ [](phase # "raised" /\ ValidPosition)
    /\ [][Advances]_vars

\* C8 witness: a call has returned although the connection was absent and
\* every database call raised.
C8_Witness ==
    /\ phase = "done" /\ dbc = "none"
    /\ \/ op = "set" /\ run.excs = NTables + Len(FkTables)
       \/ op = "drop" /\ run.excs = 1

\* C9: after a full pass, a foreign key exists on A for a declared relation
\* (A.column references B.column) only if B carries its primary key on the
\* referenced column.
C9_FkOnlyOnKeyedTarget ==
    (op = "set" /\ phase = "done")
        => \A k \in 1..NTables :
              Len(tables_pk_fk[k]) = 3 =>
                 \A n \in 1..Len(tables_pk_fk[k][3]) :
                    LET rel == tables_pk_fk[k][3][n]
                    IN HasFk(db, tables_pk_fk[k][1], rel[1])
                          => HasPk(db, rel[2], rel[3])

\* C9 witness: a pass has ended in which the primary key of Teams failed, so
\* Matches.HomeTeamId has no foreign key, while the forward reference
\* Matches.VenueId -> VenuesMeta got its foreign key in the same pass.
C9_Witness ==
    /\ op = "set" /\ phase = "done"
    /\ "Teams" \in run.pkFailed /\ db.pk["Teams"] = None
    /\ ~HasFk(db, "Matches", "HomeTeamId")
    /\ HasFk(db, "Matches", "VenueId") /\ ~HasFk(run.before, "Matches", "VenueId")

\* C10: drop_pk_and_fk looks up and drops key constraints only after every
\* foreign key of the known tables has been dropped and the drop committed.
C10_FksDroppedFirst ==
    (op = "drop" /\ (run.pkLooked \/ run.pkDropped > 0))
        => run.pkLooked /\ run.fkLeft = {}

\* C10 witness: key constraints have been dropped in a call that found
\* foreign keys when it started.
C10_Witness ==
    op = "drop" /\ run.pkDropped > 0 /\ run.before.fk # {}

\* The declared relations <<table, column>> of the list.
DeclaredRelations ==
    UNION {{<<tables_pk_fk[k][1], tables_pk_fk[k][3][n][1]>> :
               n \in 1..Len(tables_pk_fk[k][3])} :
           k \in {m \in 1..NTables : Len(tables_pk_fk[m]) = 3}}

\* No element occurs twice in the sequence.
NoRepeat(seq) == \A a, b \in 1..Len(seq) : seq[a] = seq[b] => a = b

\* C11 as stated: the foreign-key columns of a table are queried once per
\* table per run; a declared relation whose column is among the columns the
\* catalog returned gets no ALTER statement and no commit; a relation whose
\* column is not among them has its column altered and its foreign key added.
C11_Original ==
    op = "set"
        => /\ NoRepeat(run.fkQueried)
           /\ run.fkSkipped = run.fkPresent
           /\ \A r \in DeclaredRelations :
                 (r \in {run.fkTried[k] : k \in 1..Len(run.fkTried)}
                    /\ r \notin run.fkPresent /\ r \notin run.fkFailed)
                    => /\ HasFk(db, r[1], r[2])
                       /\ \E s \in ResolveCol(r[1], r[2]) : <<r[1], s>> \in db.alt

\* C12 as stated: in the relation list a set_pk_and_fk run iterates, every
\* table is a known table, and every foreign-key entry references a table of
\* the list and exactly the column that table declares as its primary key.
C12_Original ==
    op = "set" =>
    \A k \in 1..NTables :
        /\ tables_pk_fk[k][1] \in TableNames
        /\ Len(tables_pk_fk[k]) = 3 =>
              \A n \in 1..Len(tables_pk_fk[k][3]) :
                 \E m \in 1..NTables :
                    /\ tables_pk_fk[m][1] = tables_pk_fk[k][3][n][2]
                    /\ tables_pk_fk[m][2] = tables_pk_fk[k][3][n][3]

\* One iteration of the primary-key loop, seen as a step.
PkStepFrame ==
    (op = "set" /\ phase = "pk") =>
        LET table == tables_pk_fk[i]
            t == table[1]
            raised == run'.excs > run.excs
        IN /\ table[2] = None =>
                /\ run'.pkDdl = run.pkDdl /\ run'.pkCommits = run.pkCommits
                /\ db' = db /\ committed' = committed
           /\ (table[2] # None /\ t \in db.tables /\ db.pk[t] = None /\ ~raised) =>
                /\ run'.pkDdl = run.pkDdl + 2
                /\ \E s \in ResolveCol(t, table[2]) :
                      db' = [db EXCEPT !.pk[t] = s, !.alt = @ \cup {<<t, s>>}]

\* C13: for a table declared without primary key the primary-key pass issues
\* no DDL statement and no commit; for a table with a declared primary key and
\* none existing it alters exactly the declared column and adds the primary
\* key on exactly that column, changing nothing else.
C13_PkUnitFrame == [][PkStepFrame]_vars

\* C13 witness: a primary-key pass has ended without failure in which seven
\* tables got their key and the two tables declared without were passed over.
C13_Witness ==
    /\ op = "set" /\ phase = "fk" /\ run.pkFailed = {}
    /\ run.pkDone = ListedTables
    /\ run.pkDdl = 2 * Cardinality(DeclaredPkTables)
    /\ run.pkCommits = Cardinality(DeclaredPkTables)
    /\ db.pk[tables.table_playerstats] = None
    /\ db.pk[tables.table_matches] = "MatchID"

\* One unit of set_pk_and_fk, seen as a step: the commits it issues.
UnitStepCommits ==
    (op = "set" /\ phase \in {"pk", "fk"}) =>
        LET issued == (run'.pkCommits + run'.fkCommits)
                         - (run.pkCommits + run.fkCommits)
            ddl == (run'.pkDdl + run'.fkDdl) - (run.pkDdl + run.fkDdl)
            added == Constraints(db') # Constraints(db)
            raised == run'.excs > run.excs
        IN /\ issued = (IF added THEN 1 ELSE 0)
           /\ added => ddl = 2
           /\ issued = 0 => committed' = committed
           /\ (issued = 1 /\ ~raised) => committed' = db'

\* C14: exactly one commit is issued per unit whose two DDL statements
\* succeeded, right after them (the schema is durable when the unit ends);
\* a unit that is skipped by the existence check or whose DDL fails issues no
\* commit.
C14_OneCommitPerUnit == [][UnitStepCommits]_vars

\* C14 witness: a run has ended with as many commits as units that added a
\* key, having skipped some units and failed in another.
C14_Witness ==
    /\ op = "set" /\ phase = "done"
    /\ run.fkSkipped # {} /\ run.fkFailed # {}
    /\ run.pkCommits > 0 /\ run.fkCommits > 0
    /\ run.pkCommits + run.fkCommits < NTables + Cardinality(DeclaredRelations)

\* C15: when no database failure occurs, every declared relation whose
\* referenced table carries its primary key has its foreign key after the
\* pass, and the unit that had to add it did not fail, also on a column that
\* holds orphan values.
C15_OrphansTolerated ==
    (op = "set" /\ phase = "done" /\ nfail = 0 /\ dbc = "full")
        => \A k \in 1..NTables :
              Len(tables_pk_fk[k]) = 3 =>
                 \A n \in 1..Len(tables_pk_fk[k][3]) :
                    LET rel == tables_pk_fk[k][3][n]
                        t == tables_pk_fk[k][1]
                    IN (t \in db.tables /\ HasPk(db, rel[2], rel[3]))
                          => /\ HasFk(db, t, rel[1])
                             /\ ~HasFk(run.before, t, rel[1])
                                   => <<t, rel[1]>> \notin run.fkFailed

\* C15 witness: a pass has added the foreign key of PlayersStats.PersonID
\* although the column holds persons that Persons does not.
C15_Witness ==
    /\ op = "set" /\ phase = "done" /\ nfail = 0
    /\ <<"PlayersStats", "PersonID">> \in db.orph
    /\ HasFk(db, "PlayersStats", "PersonID")
    /\ ~ \E x \in run.before.fk : x.tab = "PlayersStats"

\* The check of output and mode was evaluated by the last export called.
CheckEvaluated ==
    /\ prev.op \in {"export", "coosto_export"}
    /\ ~(prev.op = "export" /\ ReadsStatsBeforeTry(prev.table) /\ api # "ok")

\* C16: the check of output and mode returns True exactly when output is one
\* of csv, sql, csv-sql and mode is one of append, replace, False otherwise,
\* the same in the exports of OrtecAPI and of CoostoAPI.
C16_CheckExact ==
    CheckEvaluated =>
        prev.checked = (/\ prev.output \in {"csv", "sql", "csv-sql"}
                        /\ prev.mode \in {"append", "replace"})

\* C16 witness: an export of OrtecAPI was refused for its mode alone, with a
\* valid output.
C16_Witness ==
    /\ prev.op = "export" /\ prev.table = tables.table_matches
    /\ prev.output = "csv-sql" /\ prev.mode = "overwrite"
    /\ ~prev.checked

\* One export called on its own, seen as a step: what the export helper wrote.
ExportStepEffects ==
    (/\ op = "idle" /\ phase = "idle" /\ op' = "idle" /\ nops' = nops + 1
     /\ prev'.op \in {"export", "coosto_export"}) =>
        LET t == prev'.table
            o == prev'.output
            m == prev'.mode
        IN /\ o = "csv" => (db' = db /\ committed' = committed)
           /\ o = "sql" => files' = files
           /\ prev'.exported =>
                /\ o \in {"csv", "csv-sql"} => files' = files \cup {t}
                /\ o \in {"sql", "csv-sql"} =>
                     /\ t \in committed'.tables
                     /\ m = "replace" => committed'.rows[t] = <<"frame">>
                     /\ m = "append" =>
                           committed'.rows[t] = Append(committed.rows[t], "frame")
                     /\ \A u \in AllTables \ {t} :
                           committed'.rows[u] = committed.rows[u]

\* C17: the export helper writes only the CSV file for output csv (the
\* database untouched), only the table for output sql (no file written) and
\* both for csv-sql; with mode replace the table then holds only the new
\* rows, with mode append the previous rows followed by the new ones.
C17_ExportEffects == [][ExportStepEffects]_vars

\* C17 witness: an export with csv-sql and append has written its file and
\* added its rows behind those the table held.
C17_Witness ==
    /\ prev.op = "coosto_export" /\ prev.exported
    /\ prev.output = "csv-sql" /\ prev.mode = "append"
    /\ prev.table \in files
    /\ committed.rows[prev.table] = <<"old", "frame">>

\* The tables of the exports a run of export_all has invoked, in order.
CalledTables == [k \in 1..Len(run.calls) |-> run.calls[k][1]]

\* C18 as stated: export_all of CoostoAPI with a valid output and mode runs
\* the five exports, each with the caller's output and mode, so that with
\* mode replace each of the five tables holds only the new data afterwards;
\* with an invalid output or mode it runs none.
C18_Original ==
    (op = "coosto_export_all" /\ phase = "done") =>
        LET output == run.args[1]
            mode == run.args[2]
        IN IF coosto_check_output_and_mode(output, mode)
           THEN /\ CalledTables =
                     <<coosto_tables.table_projects, coosto_tables.table_topics,
                       coosto_tables.table_sources, coosto_tables.table_sentiment,
                       coosto_tables.table_authors>>
                /\ \A k \in 1..Len(run.calls) : run.calls[k][2] = output
                /\ (/\ mode = "replace" /\ output \in {"sql", "csv-sql"}
                    /\ run.excs = 0)
                      => \A t \in CoostoTableNames :
                            committed.rows[t] = <<"frame">>
           ELSE run.calls = <<>>

\* C19 as stated: export_all of OrtecAPI with a valid output and mode invokes,
\* with incl_meta, the export of every table of the table-name map (all ten),
\* without it exactly the exports of PlayersStats, TeamsStats, Persons and
\* Matches, each with the caller's output and mode; with an invalid output or
\* mode it invokes none.
C19_Original ==
    (op = "ortec_export_all" /\ phase = "done") =>
        LET output == run.args[1]
            mode == run.args[2]
            incl_meta == run.args[3]
            called == {CalledTables[k] : k \in 1..Len(run.calls)}
        IN IF check_output_and_mode(output, mode)
           THEN /\ incl_meta => called = TableNames
                /\ ~incl_meta =>
                      called = {tables.table_playerstats, tables.table_teamstats,
                                tables.table_persons, tables.table_matches}
                /\ NoRepeat(CalledTables)
                /\ \A k \in 1..Len(run.calls) :
                      run.calls[k][2] = output /\ run.calls[k][3] = mode
           ELSE run.calls = <<>>

\* C20: clean_database first runs drop_pk_and_fk and then attempts each of
\* the ten tables once, in the order of the table-name map, going on after a
\* table whose statement or commit failed; when no database failure occurs,
\* delete_tables = True leaves none of the ten tables existing, and
\* delete_tables = False leaves the tables that existed, every one of the ten
\* with zero rows.
C20_CleanDatabase ==
    op = "clean" =>
        /\ phase = "tables" =>
              run.dropRan /\ run.cleaned = SubSeq(CleanTables, 1, i - 1)
        /\ phase \in {"dropfk", "droppk"} => run.cleaned = <<>>
        /\ phase = "done" =>
              /\ run.dropRan
              /\ run.cleaned = CleanTables
              /\ (run.injected = 0 /\ dbc = "full") =>
                    /\ committed = db
                    /\ IF run.args[1]
                       THEN db.tables \cap TableNames = {}
                       ELSE /\ db.tables = run.tablesBefore
                            /\ \A t \in TableNames : db.rows[t] = <<>>

\* C20 witness: a run with delete_tables = False has ended after a failure
\* at one table, having attempted all ten; and the tables were filled before.
C20_Witness ==
    /\ op = "clean" /\ phase = "done" /\ ~run.args[1]
    /\ run.cleanFailed = {tables.table_persons}
    /\ run.cleaned = CleanTables
    /\ TableNames \subseteq run.tablesBefore
    /\ db.rows[tables.table_persons] # <<>>
    /\ db.rows[tables.table_teamslineup] = <<>>

\* The table each export of OrtecAPI writes (its `table = ...` line).
TableOfExport ==
    [players_stats_export |-> tables.table_playerstats,
     teams_stats_export |-> tables.table_teamstats,
     persons_export |-> tables.table_persons,
     team_stats_meta_export |-> tables.table_teamstatsmeta,
     player_stats_meta_export |-> tables.table_playerstatsmeta,
     positions_meta_export |-> tables.table_positionsmeta,
     venues_meta_export |-> tables.table_venuesmeta,
     match_info_export |-> tables.table_matches,
     teams_export |-> tables.table_teams,
     export_team_lineups |-> tables.table_teamslineup]

\* The positions of set_pk_and_fk among the calls the main program has made.
SetCalls == {k \in 1..Len(invoked) : invoked[k] = "set_pk_and_fk"}

\* The tables whose export the main program has invoked before its call k.
ExportedBefore(k) ==
    {TableOfExport[invoked[n]] :
        n \in {m \in 1..(k - 1) : invoked[m] \in DOMAIN TableOfExport}}

C22_DropLeavesNoKeys ==
    (op = "drop" /\ phase = "done" /\ run.injected = 0 /\ dbc = "full") =>
        /\ run.excs = 0
        /\ committed = db
        /\ \A t \in TableNames :
              /\ db.pk[t] = None
              /\ ~ \E x \in db.fk : x.tab = t

\* C22 witness: a run without failure has ended on a database that held
\* primary keys and foreign keys, those of TeamsLineUp among them.
C22_Witness ==
    /\ op = "drop" /\ phase = "done" /\ run.injected = 0 /\ dbc = "full"
    /\ \E x \in run.before.fk : x.tab = tables.table_teamslineup
    /\ \E x \in run.before.fk : x.tab = tables.table_matches
    /\ run.before.pk[tables.table_teams] # None
    /\ db.fk = {}

\* One export called on its own with an output or a mode that is not allowed,
\* seen as a step: it writes no file and changes nothing in the database.
InvalidWritesNothing ==
    (/\ op = "idle" /\ op' = "idle" /\ nops' = nops + 1
     /\ prev'.op \in {"export", "coosto_export", "lineups"}
     /\ ~(/\ prev'.output \in {"csv", "sql", "csv-sql"}
          /\ prev'.mode \in {"append", "replace"}))
        => /\ files' = files
           /\ db' = db
           /\ committed' = committed

\* C23 as stated: every export of OrtecAPI and CoostoAPI, export_team_lineups
\* included, called with an output or a mode that is not allowed writes no
\* CSV file and executes no statement that changes the database.
C23_Original == [][InvalidWritesNothing]_vars

\* Column s of table t carries a key constraint of its own in schema d.
OwnKey(d, t, s) ==
    \/ d.pk[t] = s
    \/ \E x \in d.fk : x.tab = t /\ x.col = s

\* One unit of set_pk_and_fk, seen as a step: an ALTER COLUMN of this run
\* becomes durable only together with the key its unit adds.
NoLeakedAlter ==
    (op = "set" /\ phase \in {"pk", "fk"}) =>
        \A a \in (committed'.alt \ committed.alt) \ run.altPending :
            OwnKey(committed', a[1], a[2])

\* C24 as stated: a unit of set_pk_and_fk that fails leaves no committed
\* schema change; the first ALTER of a unit whose second statement failed is
\* never made durable by the commit of a later unit of the same run.
C24_Original == [][NoLeakedAlter]_vars

\* TeamsLineUp, when it exists in schema d, carries both foreign keys:
\* TeamID to Teams (Id) and PersonID to Persons (PersonId).
LineUpReferences(d) ==
    tables.table_teamslineup \in d.tables =>
        /\ \E x \in d.fk : /\ x.tab = tables.table_teamslineup
                           /\ Fold(x.col) = Fold("TeamID")
                           /\ x.ref = tables.table_teams
                           /\ Fold(x.refcol) = Fold("Id")
        /\ \E x \in d.fk : /\ x.tab = tables.table_teamslineup
                           /\ Fold(x.col) = Fold("PersonID")
                           /\ x.ref = tables.table_persons
                           /\ Fold(x.refcol) = Fold("PersonId")

\* A step of an export or of set_pk_and_fk keeps the foreign keys of
\* TeamsLineUp.
KeepsLineUpReferences ==
    (op # "drop" /\ op' # "drop" /\ LineUpReferences(committed))
        => LineUpReferences(committed')

\* C25 as stated: after any sequence of exports with sql or csv-sql output
\* and set_pk_and_fk runs, TeamsLineUp, whenever it exists, carries both its
\* foreign keys (no table exists when the sequence starts).
C25_Original == [][KeepsLineUpReferences]_vars

\* The foreign-key phase of drop_pk_and_fk, seen as a step that raised: the
\* call ends there.
FkPhaseFailureEndsDrop ==
    (op = "drop" /\ phase = "dropfk" /\ run'.excs > run.excs) =>
        /\ phase' = "done"
        /\ ~run'.pkLooked /\ run'.pkDropped = 0
        /\ db'.pk = db.pk /\ db'.pk = run.before.pk
        /\ committed'.pk = committed.pk

\* C26: when the foreign-key phase of drop_pk_and_fk fails (at its lookup,
\* at a DROP CONSTRAINT or at its commit) the primary-key phase is not
\* started: no key lookup is made and every primary key is left as it was.
C26_NoPkPhaseAfterFkFailure == [][FkPhaseFailureEndsDrop]_vars

\* C26 witness: a drop_pk_and_fk run has ended after the commit of its
\* foreign-key phase failed, the primary keys still in place.
C26_Witness ==
    /\ op = "drop" /\ phase = "done" /\ run.excs = 1 /\ ~run.pkLooked
    /\ db.fk = {} /\ committed.fk # {}
    /\ committed.pk[tables.table_teams] # None
    /\ db.pk = run.before.pk

\* C27 as stated: every export of OrtecAPI and CoostoAPI returns normally,
\* also when the constructor did not reach the API: no exception leaves an
\* export called on its own or by export_all.
C27_Original ==
    (\/ prev.op \in {"export", "coosto_export", "lineups"}
     \/ op \in {"ortec_export_all", "coosto_export_all"})
        => phase # "raised"

\* The constraints of TeamsLineUp in schema d, its altered columns included.
LineUpConstraints(d) ==
    [pk |-> d.pk[tables.table_teamslineup],
     fk |-> {x \in d.fk : x.tab = tables.table_teamslineup},
     alt |-> {a \in d.alt : a[1] = tables.table_teamslineup}]

\* One step of set_pk_and_fk or of drop_pk_and_fk, seen by the statements it
\* executes on the connection.
KeyStepFrame ==
    /\ op = "set" =>
          /\ db'.tables = db.tables
          /\ LineUpConstraints(db') = LineUpConstraints(db)
          /\ phase = "pk" => db'.fk = db.fk
          /\ phase = "fk" => db'.pk = db.pk
          /\ \A t \in AllTables :
                db'.pk[t] # db.pk[t] => (db.pk[t] = None /\ t \in DeclaredPkTables)
    /\ op = "drop" =>
          /\ db'.tables = db.tables
          /\ \A t \in AllTables : db'.pk[t] \in {db.pk[t], None}

\* C28: set_pk_and_fk creates and drops no table and changes no constraint
\* of TeamsLineUp; its primary-key pass adds or removes no foreign key, its
\* foreign-key pass adds or removes no primary key; a primary key is only
\* ever added to a table that has none, so that over any sequence of
\* set_pk_and_fk and drop_pk_and_fk runs no table gets a second one.
C28_SetFrame == [][KeyStepFrame]_vars

\* C28 witness: a set_pk_and_fk run has ended having added primary and
\* foreign keys while TeamsLineUp, present without foreign keys, is as it was.
C28_Witness ==
    /\ op = "set" /\ phase = "done"
    /\ run.pkCommits > 0 /\ run.fkCommits > 0
    /\ tables.table_teamslineup \in db.tables
    /\ LineUpConstraints(db) = [pk |-> None, fk |-> {}, alt |-> {}]

====
